---- MODULE Spec2Model ----
(***************************************************************************)
(* Model of the repeater field editor, src/src/components/Field.tsx.       *)
(*                                                                         *)
(* Spec        the mounted component against its host: the host's stored   *)
(*             value, the value-changed notifications in flight, the       *)
(*             listener, the re-render it causes and the user mutations.   *)
(* SpecPure    the three list transformations (append, field edit, delete) *)
(*             applied to every bounded list and record.                   *)
(* SpecOptions createOptionsArray applied to every bounded string.         *)
(* SpecParams  the reading of the instance parameters (Field, lines 55-68) *)
(*             applied to bounded raw parameter maps.                      *)
(***************************************************************************)
EXTENDS Integers, Sequences, FiniteSets, TLC

VARIABLES
    items,        \* useState<Item[]>([]) : the local list
    hostValue,    \* the field value the host stores
    queue,        \* value-changed notifications the host has not delivered yet
    listeners,    \* number of listeners registered through onValueChanged
    resizeCalls,  \* number of calls of window.startAutoResizer
    usedIds,      \* identifiers that exist already (uuid never returns one)
    lastCall,     \* the last call of sdk.field.setValue, with its inputs
    lastArray,    \* history: the last array-shaped value the listener received
    hist,         \* history: the user mutations submitted, while no other
                  \*          writer has changed the field
    str,          \* SpecOptions: the input of createOptionsArray
    opts,         \* SpecOptions: its result
    params,       \* SpecParams: the raw instance parameters
    config        \* SpecParams: what one evaluation of Field derives from them

vars == <<items, hostValue, queue, listeners, resizeCalls, usedIds, lastCall,
          lastArray, hist, str, opts, params, config>>

compVars == <<items, hostValue, queue, listeners, resizeCalls, usedIds,
              lastCall, lastArray, hist>>
cfgVars == <<str, opts, params, config>>

(***************************************************************************)
(* Bounds                                                                  *)
(***************************************************************************)
MaxIds == 3        \* size of the identifier pool
MaxQueue == 2      \* notifications in flight
MaxRenders == 3    \* renders of the component in one lifetime
MaxPureLen == 2    \* length of the lists SpecPure starts from
MaxStrLen == 4     \* length of the strings SpecOptions starts from

Ids == 1..MaxIds
Texts == {"", "x"}
Properties == {"key", "operator", "value"}

(***************************************************************************)
(* Records and lists                                                       *)
(***************************************************************************)
Item(i, k, v, o) == [id |-> i, key |-> k, value |-> v, operator |-> o]

Items == {Item(i, k, v, o) : i \in Ids, k \in Texts, v \in Texts, o \in Texts}

IdsOf(L) == {L[n].id : n \in 1..Len(L)}

DistinctIds(L) == \A m, n \in 1..Len(L) : L[m].id = L[n].id => m = n

RECURSIVE ListsUpTo(_)
ListsUpTo(n) ==
    IF n = 0 THEN {<<>>}
    ELSE LET S == ListsUpTo(n - 1)
         IN  S \cup {Append(L, it) : L \in {M \in S : Len(M) = n - 1}, it \in Items}

RecordLists(n) == {L \in ListsUpTo(n) : DistinctIds(L)}

\* uuid(): an identifier that is not in use. Identifiers are opaque and only
\* compared for equality, so the least unused one stands for any of them.
uuid(used) == {i \in Ids \ used : \A j \in Ids \ used : i <= j}

\* createItem with the identifier uuid() returned
createItem(id) == Item(id, "", "", "")

\* Array.prototype.findIndex, 1-based; 0 stands for JavaScript's -1
findIndex(L, id) ==
    IF \E n \in 1..Len(L) : L[n].id = id
    THEN CHOOSE n \in 1..Len(L) : L[n].id = id /\ \A m \in 1..(n - 1) : L[m].id # id
    ELSE 0

\* splice(index, 0, rec): the record is inserted and nothing is removed
splice1_Insert(L, idx, rec) ==
    LET start == IF idx = 0
                 THEN (IF Len(L) = 0 THEN 1 ELSE Len(L))
                 ELSE idx
    IN  SubSeq(L, 1, start - 1) \o <<rec>> \o SubSeq(L, start, Len(L))

\* Array.prototype.splice(index, 1, rec) on a copy; idx is findIndex's result.
\* A negative start counts from the end and is clamped at the beginning, so
\* -1 addresses the last element, and the first position of an empty array.
splice1(L, idx, rec) ==
    LET start == IF idx = 0
                 THEN (IF Len(L) = 0 THEN 1 ELSE Len(L))
                 ELSE idx
        del   == IF start <= Len(L) THEN 1 ELSE 0
    IN  SubSeq(L, 1, start - 1) \o <<rec>> \o SubSeq(L, start + del, Len(L))

\* the replacement record built without the spread: { id: item.id, [property]: text }
withProperty_NoSpread(item, property, text) ==
    [id |-> item.id,
     key |-> IF property = "key" THEN text ELSE "",
     value |-> IF property = "value" THEN text ELSE "",
     operator |-> IF property = "operator" THEN text ELSE ""]

\* { ...item, [property]: text }
withProperty(item, property, text) == [item EXCEPT ![property] = text]

\* addNewItem putting the new record first: [createItem(), ...items]
addNewItem_Prepend(L, id) == <<createItem(id)>> \o L

\* addNewItem submitting the list without the new record
addNewItem_Drop(L, id) == L

\* the list addNewItem hands to setValue
addNewItem(L, id) == L \o <<createItem(id)>>

\* the list the handler made by createOnChangeHandler hands to setValue
createOnChangeHandler(L, item, property, text) ==
    splice1(L, findIndex(L, item.id), withProperty(item, property, text))

\* the list the handler made by createOnChangeSelectHandler hands to setValue
createOnChangeSelectHandler(L, item, property, text) ==
    splice1(L, findIndex(L, item.id), withProperty(item, property, text))

\* deleteItem with the comparison inverted: i.id === item.id
deleteItem_Inverted(L, item) == SelectSeq(L, LAMBDA i : i.id = item.id)

\* the list deleteItem hands to setValue
deleteItem(L, item) == SelectSeq(L, LAMBDA i : i.id # item.id)

(***************************************************************************)
(* The host                                                                *)
(***************************************************************************)
ArrayValue(L) == [arr |-> TRUE, list |-> L]
NonArray == [arr |-> FALSE, list |-> <<>>]

\* values another writer may have stored in the field
ExternalValues ==
    { NonArray,
      ArrayValue(<<>>),
      ArrayValue(<<Item(1, "x", "x", "")>>),
      ArrayValue(<<Item(2, "", "x", ""), Item(1, "x", "", "x")>>) }

\* initLen  length of the list the host held at mount
\* appends, deletes  number of appends and deletes submitted
\* overlap  a mutation was submitted while a notification was outstanding
\* loaded   the notification of the initial value has been delivered
\* early    a mutation was submitted before that
\* external another writer changed the field: the history ends there
History(n, loaded) ==
    [initLen |-> n, appends |-> 0, deletes |-> 0, external |-> FALSE,
     overlap |-> FALSE, loaded |-> loaded, early |-> FALSE]

NoHistory ==
    [initLen |-> 0, appends |-> 0, deletes |-> 0, external |-> TRUE,
     overlap |-> TRUE, loaded |-> TRUE, early |-> TRUE]

NoCall == [op |-> "none", L |-> <<>>, item |-> createItem(1), property |-> "key",
           text |-> "", out |-> <<>>]

Call(op, L, item, property, text, out) ==
    [op |-> op, L |-> L, item |-> item, property |-> property, text |-> text,
     out |-> out]

\* sdk.field.setValue(v): the host stores v and notifies the listeners
setValue(v) ==
    /\ hostValue' = ArrayValue(v)
    /\ queue' = Append(queue, ArrayValue(v))

CfgIdle ==
    /\ str = <<>>
    /\ opts = [done |-> FALSE, value |-> <<>>]
    /\ params = <<>>
    /\ config = <<>>

(***************************************************************************)
(* Spec: the mounted component                                             *)
(***************************************************************************)
Init ==
    /\ items = <<>>
    /\ hostValue \in ExternalValues
    /\ queue = <<hostValue>>
    /\ listeners = 1
    /\ resizeCalls = 1
    /\ usedIds = IdsOf(hostValue.list)
    /\ lastCall = NoCall
    /\ lastArray = <<>>
    /\ hist = History(Len(hostValue.list), FALSE)
    /\ CfgIdle

\* the listener clearing the local list on a value that is not an array
OnValueChanged_Clear ==
    /\ queue # <<>>
    /\ LET value == Head(queue)
       IN  IF value.arr
           THEN /\ listeners < MaxRenders
                /\ items' = value.list
                /\ lastArray' = value.list
                /\ resizeCalls' = resizeCalls + 1
                /\ listeners' = listeners + 1
           ELSE /\ items' = <<>>
                /\ UNCHANGED <<lastArray, resizeCalls, listeners>>
    /\ queue' = Tail(queue)
    /\ hist' = IF hist.external THEN hist ELSE [hist EXCEPT !.loaded = TRUE]
    /\ UNCHANGED <<hostValue, usedIds, lastCall, cfgVars>>

\* the listener merging the delivered array into the local list
OnValueChanged_Merge ==
    /\ queue # <<>>
    /\ LET value == Head(queue)
       IN  IF value.arr
           THEN /\ listeners < MaxRenders
                /\ items' = items \o value.list
                /\ lastArray' = value.list
                /\ resizeCalls' = resizeCalls + 1
                /\ listeners' = listeners + 1
           ELSE UNCHANGED <<items, lastArray, resizeCalls, listeners>>
    /\ queue' = Tail(queue)
    /\ hist' = IF hist.external THEN hist ELSE [hist EXCEPT !.loaded = TRUE]
    /\ UNCHANGED <<hostValue, usedIds, lastCall, cfgVars>>

\* The host delivers the oldest notification to every registered listener.
\* An array goes to setItems; the component renders again and the effect,
\* which has no dependency list, runs again after that render.
OnValueChanged ==
    /\ queue # <<>>
    /\ LET value == Head(queue)
       IN  IF value.arr
           THEN /\ listeners < MaxRenders
                /\ items' = value.list
                /\ lastArray' = value.list
                /\ resizeCalls' = resizeCalls + 1
                /\ listeners' = listeners + 1
           ELSE UNCHANGED <<items, lastArray, resizeCalls, listeners>>
    /\ queue' = Tail(queue)
    /\ hist' = IF hist.external THEN hist ELSE [hist EXCEPT !.loaded = TRUE]
    /\ UNCHANGED <<hostValue, usedIds, lastCall, cfgVars>>

\* Another writer changes the stored value.
ExternalChange ==
    /\ Len(queue) < MaxQueue
    /\ \E v \in ExternalValues :
        /\ hostValue' = v
        /\ queue' = Append(queue, v)
        /\ usedIds' = usedIds \cup IdsOf(v.list)
    /\ hist' = NoHistory
    /\ UNCHANGED <<items, listeners, resizeCalls, lastCall, lastArray, cfgVars>>

\* the history after a user mutation of the given kind is submitted
Submitted(kind) ==
    IF hist.external THEN hist
    ELSE [hist EXCEPT !.appends = @ + (IF kind = "append" THEN 1 ELSE 0),
                      !.deletes = @ + (IF kind = "delete" THEN 1 ELSE 0),
                      !.overlap = @ \/ queue # <<>>,
                      !.early = @ \/ ~hist.loaded]

\* click on "Add Item"
AddNewItem ==
    /\ Len(queue) < MaxQueue
    /\ \E id \in uuid(usedIds) :
        LET out == addNewItem(items, id)
        IN  /\ setValue(out)
            /\ usedIds' = usedIds \cup {id}
            /\ lastCall' = Call("append", items, createItem(id), "key", "", out)
    /\ hist' = Submitted("append")
    /\ UNCHANGED <<items, listeners, resizeCalls, lastArray, cfgVars>>

\* change of the text input of a rendered row (line 177)
ChangeText ==
    /\ Len(queue) < MaxQueue
    /\ \E n \in 1..Len(items), text \in Texts :
        LET out == createOnChangeHandler(items, items[n], "value", text)
        IN  /\ setValue(out)
            /\ lastCall' = Call("edit", items, items[n], "value", text, out)
    /\ hist' = Submitted("edit")
    /\ UNCHANGED <<items, listeners, resizeCalls, usedIds, lastArray, cfgVars>>

\* change of a select of a rendered row (lines 130, 146, 162)
ChangeSelect ==
    /\ Len(queue) < MaxQueue
    /\ \E n \in 1..Len(items), property \in Properties, text \in Texts :
        LET out == createOnChangeSelectHandler(items, items[n], property, text)
        IN  /\ setValue(out)
            /\ lastCall' = Call("edit", items, items[n], property, text, out)
    /\ hist' = Submitted("edit")
    /\ UNCHANGED <<items, listeners, resizeCalls, usedIds, lastArray, cfgVars>>

\* click on the delete button of a rendered row (line 185)
DeleteItem ==
    /\ Len(queue) < MaxQueue
    /\ \E n \in 1..Len(items) :
        LET out == deleteItem(items, items[n])
        IN  /\ setValue(out)
            /\ lastCall' = Call("delete", items, items[n], "key", "", out)
    /\ hist' = Submitted("delete")
    /\ UNCHANGED <<items, listeners, resizeCalls, usedIds, lastArray, cfgVars>>

Next ==
    \/ OnValueChanged
    \/ ExternalChange
    \/ AddNewItem
    \/ ChangeText
    \/ ChangeSelect
    \/ DeleteItem

Spec == Init /\ [][Next]_vars

(***************************************************************************)
(* SpecPure: the list transformations on every bounded list and record     *)
(***************************************************************************)
\* A handler's record is a row of the list it was rendered from (line 121);
\* records whose id is not in the list are drawn as well, for the case of a
\* handler called with a record that is no longer there.
HandlerItems(L) == {it \in Items : it.id \notin IdsOf(L) \/ \E n \in 1..Len(L) : L[n] = it}

InitPure ==
    /\ items \in RecordLists(MaxPureLen)
    /\ hostValue = ArrayValue(items)
    /\ queue = <<>>
    /\ listeners = 1
    /\ resizeCalls = 1
    /\ usedIds = IdsOf(items)
    /\ lastCall = NoCall
    /\ lastArray = items
    /\ hist = History(Len(items), TRUE)
    /\ CfgIdle

PureAppend ==
    /\ lastCall.op = "none"
    /\ \E id \in uuid(usedIds) :
        lastCall' = Call("append", items, createItem(id), "key", "",
                         addNewItem(items, id))
    /\ UNCHANGED <<items, hostValue, queue, listeners, resizeCalls, usedIds,
                   lastArray, hist, cfgVars>>

PureChangeText ==
    /\ lastCall.op = "none"
    /\ \E item \in HandlerItems(items), property \in {"key", "value"}, text \in Texts :
        lastCall' = Call("edit", items, item, property, text,
                         createOnChangeHandler(items, item, property, text))
    /\ UNCHANGED <<items, hostValue, queue, listeners, resizeCalls, usedIds,
                   lastArray, hist, cfgVars>>

PureChangeSelect ==
    /\ lastCall.op = "none"
    /\ \E item \in HandlerItems(items), property \in Properties, text \in Texts :
        lastCall' = Call("edit", items, item, property, text,
                         createOnChangeSelectHandler(items, item, property, text))
    /\ UNCHANGED <<items, hostValue, queue, listeners, resizeCalls, usedIds,
                   lastArray, hist, cfgVars>>

PureDelete ==
    /\ lastCall.op = "none"
    /\ \E item \in HandlerItems(items) :
        lastCall' = Call("delete", items, item, "key", "",
                         deleteItem(items, item))
    /\ UNCHANGED <<items, hostValue, queue, listeners, resizeCalls, usedIds,
                   lastArray, hist, cfgVars>>

NextPure ==
    \/ PureAppend
    \/ PureChangeText
    \/ PureChangeSelect
    \/ PureDelete

SpecPure == InitPure /\ [][NextPure]_vars

(***************************************************************************)
(* Strings, as sequences of characters                                     *)
(***************************************************************************)
Alphabet == {"a", "b", " ", ","}
Whitespace == {" "}

RECURSIVE StringsUpTo(_)
StringsUpTo(n) ==
    IF n = 0 THEN {<<>>}
    ELSE LET S == StringsUpTo(n - 1)
         IN  S \cup {Append(s, c) : s \in {t \in S : Len(t) = n - 1}, c \in Alphabet}

\* String.prototype.split(','): "" gives one empty token
RECURSIVE split(_)
split(s) ==
    IF \E n \in 1..Len(s) : s[n] = ","
    THEN LET n == CHOOSE k \in 1..Len(s) : s[k] = "," /\ \A j \in 1..(k - 1) : s[j] # ","
         IN  <<SubSeq(s, 1, n - 1)>> \o split(SubSeq(s, n + 1, Len(s)))
    ELSE <<s>>

RECURSIVE trimStart(_)
trimStart(s) ==
    IF s # <<>> /\ Head(s) \in Whitespace THEN trimStart(Tail(s)) ELSE s

RECURSIVE trimEnd(_)
trimEnd(s) ==
    IF s # <<>> /\ s[Len(s)] \in Whitespace THEN trimEnd(SubSeq(s, 1, Len(s) - 1)) ELSE s

\* String.prototype.trim
trim(s) == trimEnd(trimStart(s))

\* the reducer of createOptionsArray (lines 42-46) over the tokens
RECURSIVE reduceTokens(_, _)
reduceTokens(tokens, acc) ==
    IF tokens = <<>> THEN acc
    ELSE LET next == Head(tokens)
         IN  reduceTokens(Tail(tokens),
                          IF Len(next) # 0 THEN acc \o <<trim(next)>> ELSE acc)

createOptionsArray(s) == reduceTokens(split(s), <<>>)

(***************************************************************************)
(* SpecOptions: createOptionsArray on every bounded string                 *)
(***************************************************************************)
CompIdle ==
    /\ items = <<>>
    /\ hostValue = NonArray
    /\ queue = <<>>
    /\ listeners = 1
    /\ resizeCalls = 1
    /\ usedIds = {}
    /\ lastCall = NoCall
    /\ lastArray = <<>>
    /\ hist = History(0, TRUE)

NoOpts == [done |-> FALSE, value |-> <<>>]

InitOptions ==
    /\ CompIdle
    /\ str \in StringsUpTo(MaxStrLen)
    /\ opts = NoOpts
    /\ params = <<>>
    /\ config = <<>>

ParseOptions ==
    /\ ~opts.done
    /\ opts' = [done |-> TRUE, value |-> createOptionsArray(str)]
    /\ UNCHANGED <<compVars, str, params, config>>

NextOptions == ParseOptions

SpecOptions == InitOptions /\ [][NextOptions]_vars

(***************************************************************************)
(* SpecParams: the instance parameters read by Field (lines 55-68)         *)
(***************************************************************************)
\* JavaScript values an instance parameter can hold
Undefined == [t |-> "undefined", s |-> <<>>, b |-> FALSE]
Null == [t |-> "null", s |-> <<>>, b |-> FALSE]
Bool(b) == [t |-> "boolean", s |-> <<>>, b |-> b]
Str(s) == [t |-> "string", s |-> s, b |-> FALSE]

Truthy(v) == (v.t = "boolean" /\ v.b) \/ (v.t = "string" /\ v.s # <<>>)

DefaultValueName == Str(<<"V", "a", "l", "u", "e">>)
DefaultValueOnly == Bool(FALSE)
DefaultSelectName == Str(<<"O", "p", "t", "i", "o", "n", "s">>)
DefaultSelectOptions == Str(<<"i", "n", "c", "l", "u", "d", "e", "s", ",", " ", "e", "x", "c", "l", "u", "d", "e", "s">>)
DefaultValueOptions == Str(<<>>)
DefaultOperatorOptions == Str(<<>>)
DefaultOperatorName == Str(<<"O", "p", "e", "r", "a", "t", "o", "r">>)

ParamNames == {"valueName", "valueOnly", "selectName", "selectOptions",
               "valueOptions", "operatorOptions", "operatorName"}

LabelChoices == {Undefined, Null, Str(<<>>), Str(<<"a">>)}
FlagChoices == {Undefined, Null, Bool(FALSE), Bool(TRUE)}
OptionChoices == {Undefined, Null, Str(<<>>), Str(<<"a", ",", " ", "b">>)}

ParamChoices(name) ==
    IF name \in {"valueName", "selectName", "operatorName"} THEN LabelChoices
    ELSE IF name = "valueOnly" THEN FlagChoices
    ELSE OptionChoices

\* a destructuring default: it applies to undefined (and to a missing
\* property, which reads as undefined) and to nothing else
destructure(p, name, dflt) == IF p[name].t = "undefined" THEN dflt ELSE p[name]

NoConfig ==
    [status |-> "none", valueName |-> Undefined, valueOnly |-> Undefined,
     selectName |-> Undefined, operatorName |-> Undefined,
     selectOpts |-> <<>>, valueOpts |-> <<>>, operatorOpts |-> <<>>]

\* One evaluation of Field up to line 68. createOptionsArray calls str.split,
\* which raises a TypeError when str is null or has no split method.
Field(p) ==
    LET valueName == destructure(p, "valueName", DefaultValueName)
        valueOnly == destructure(p, "valueOnly", DefaultValueOnly)
        selectName == destructure(p, "selectName", DefaultSelectName)
        selectOptions == destructure(p, "selectOptions", DefaultSelectOptions)
        valueOptions == destructure(p, "valueOptions", DefaultValueOptions)
        operatorOptions == destructure(p, "operatorOptions", DefaultOperatorOptions)
        operatorName == destructure(p, "operatorName", DefaultOperatorName)
    IN  IF \E o \in {selectOptions, valueOptions, operatorOptions} : o.t # "string"
        THEN [NoConfig EXCEPT !.status = "TypeError"]
        ELSE [status |-> "ok", valueName |-> valueName, valueOnly |-> valueOnly,
              selectName |-> selectName, operatorName |-> operatorName,
              selectOpts |-> createOptionsArray(selectOptions.s),
              valueOpts |-> createOptionsArray(valueOptions.s),
              operatorOpts |-> createOptionsArray(operatorOptions.s)]

InitParams ==
    /\ CompIdle
    /\ str = <<>>
    /\ opts = NoOpts
    /\ params \in [ParamNames -> LabelChoices \cup FlagChoices \cup OptionChoices]
    /\ \A name \in ParamNames : params[name] \in ParamChoices(name)
    /\ config = NoConfig

Render ==
    /\ config.status = "none"
    /\ config' = Field(params)
    /\ UNCHANGED <<compVars, str, opts, params>>

NextParams == Render

SpecParams == InitParams /\ [][NextParams]_vars

(***************************************************************************)
(* Properties                                                              *)
(***************************************************************************)
Blank(rec) == rec.key = "" /\ rec.operator = "" /\ rec.value = ""

\* C1 (SpecPure): the list addNewItem hands to setValue is the local list L
\* followed by one blank record whose id does not occur in L.
C1_Append ==
    lastCall.op = "append" =>
        LET L == lastCall.L
            out == lastCall.out
        IN  /\ Len(out) = Len(L) + 1
            /\ \A n \in 1..Len(L) : out[n] = L[n]
            /\ Blank(out[Len(out)])
            /\ out[Len(out)].id \notin IdsOf(L)

C1_Witness ==
    /\ lastCall.op = "append"
    /\ Len(lastCall.L) = 2
    /\ ~Blank(lastCall.L[1])

Kept(L, id) == {n \in 1..Len(L) : L[n].id # id}
Rank(L, id, n) == Cardinality({m \in Kept(L, id) : m <= n})

\* C2 (SpecPure): the list deleteItem hands to setValue is the subsequence of
\* L of the records whose id differs from the given one, in their order; an id
\* that occurs once leaves len(L)-1 records and none with that id, an absent
\* id leaves L.
C2_Delete ==
    lastCall.op = "delete" =>
        LET L == lastCall.L
            id == lastCall.item.id
            out == lastCall.out
        IN  /\ Len(out) = Cardinality(Kept(L, id))
            /\ \A n \in Kept(L, id) : out[Rank(L, id, n)] = L[n]
            /\ Cardinality({n \in 1..Len(L) : L[n].id = id}) = 1
                  => Len(out) = Len(L) - 1 /\ id \notin IdsOf(out)
            /\ id \notin IdsOf(L) => out = L

C2_Witness ==
    /\ lastCall.op = "delete"
    /\ Len(lastCall.L) = 2
    /\ lastCall.item.id = lastCall.L[1].id
    /\ lastCall.out = <<lastCall.L[2]>>

\* C3 (SpecPure): an edit of field f of the record with an id present in L
\* hands over a list of the same length in which that record has f equal to
\* the new text and its id and other fields as before, and every other
\* position holds the record it held.
C3_FieldEdit ==
    (lastCall.op = "edit" /\ lastCall.item.id \in IdsOf(lastCall.L)) =>
        LET L == lastCall.L
            out == lastCall.out
            f == lastCall.property
            p == CHOOSE n \in 1..Len(L) : L[n].id = lastCall.item.id
        IN  /\ Len(out) = Len(L)
            /\ out[p][f] = lastCall.text
            /\ out[p].id = L[p].id
            /\ \A g \in Properties \ {f} : out[p][g] = L[p][g]
            /\ \A n \in 1..Len(L) : n # p => out[n] = L[n]

C3_Witness ==
    /\ lastCall.op = "edit"
    /\ Len(lastCall.L) = 2
    /\ lastCall.item = lastCall.L[2]
    /\ lastCall.property = "operator"
    /\ lastCall.item.operator # lastCall.text
    /\ lastCall.item.key = "x"

C5_LocalMirrorsHost ==
    /\ [](items = lastArray)
    /\ [][items' # items =>
            /\ queue # <<>>
            /\ Head(queue).arr
            /\ items' = Head(queue).list
            /\ queue' = Tail(queue)]_vars

\* an append was echoed back, then a value that is no array was delivered
C5_Witness ==
    /\ lastCall.op = "append"
    /\ items = lastCall.out
    /\ items # lastCall.L
    /\ queue = <<>>
    /\ ~hostValue.arr

(***************************************************************************)
(* The parsing the specification describes for option strings: split on    *)
(* ',', trim every token, drop the tokens that are empty then.             *)
(***************************************************************************)
TrimmedTokens(s) == [n \in 1..Len(split(s)) |-> trim(split(s)[n])]
ParsedOptions(s) == SelectSeq(TrimmedTokens(s), LAMBDA t : t # <<>>)

\* C6 (SpecOptions): createOptionsArray returns the trimmed non-empty tokens
\* of its input in order; the result never holds an empty string.
C6_OptionParsing ==
    opts.done =>
        /\ opts.value = ParsedOptions(str)
        /\ \A n \in 1..Len(opts.value) : opts.value[n] # <<>>

Falsy(v) == ~Truthy(v)

\* C7 (SpecParams): reading the parameters never raises, and every parameter
\* that is missing or falsy gets its default.
C7_Defaulting ==
    config.status # "none" =>
        /\ config.status = "ok"
        /\ Falsy(params["valueName"]) => config.valueName = DefaultValueName
        /\ Falsy(params["valueOnly"]) => ~Truthy(config.valueOnly)
        /\ Falsy(params["selectName"]) => config.selectName = DefaultSelectName
        /\ Falsy(params["operatorName"]) => config.operatorName = DefaultOperatorName
        /\ Falsy(params["selectOptions"])
              => config.selectOpts = ParsedOptions(DefaultSelectOptions.s)
        /\ Falsy(params["valueOptions"]) => config.valueOpts = <<>>
        /\ Falsy(params["operatorOptions"]) => config.operatorOpts = <<>>

\* C8 (Spec): the listener is registered once and the auto-resize request is
\* issued once in the lifetime of the component.
C8_MountOnce == listeners = 1 /\ resizeCalls = 1

\* C9 (Spec): every list handed to setValue, and so every list the host
\* stores or has in flight, has pairwise distinct ids.
C9_UniqueIds ==
    /\ DistinctIds(lastCall.out)
    /\ DistinctIds(hostValue.list)
    /\ \A n \in 1..Len(queue) : DistinctIds(queue[n].list)

C9_Witness ==
    /\ lastCall.op = "edit"
    /\ Len(lastCall.out) = 2
    /\ hist.appends >= 1
    /\ lastCall.item.id = lastCall.L[1].id
    /\ lastCall.item[lastCall.property] # lastCall.text

\* C10 as stated (Spec): once every notification is delivered, the stored and
\* the local list are equal and hold every submitted mutation; after k
\* appends and no delete there are k records more than at the start.
C10_NoMutationLost ==
    (queue = <<>> /\ ~hist.external /\ ~hist.early /\ hist.deletes = 0) =>
        /\ hostValue.list = items
        /\ Len(items) = hist.initLen + hist.appends

\* C10 as amended (Spec): once every notification is delivered, the stored
\* list (when it is an array) and the local list are equal; when in addition
\* every mutation was issued with no notification outstanding, the list holds
\* every one of them: its length is the initial length plus the number of
\* appends minus the number of deletes.
C10_NoMutationLostWhenSerial ==
    /\ (queue = <<>> /\ hostValue.arr) => items = hostValue.list
    /\ (queue = <<>> /\ ~hist.external /\ ~hist.overlap) =>
          Len(items) = hist.initLen + hist.appends - hist.deletes

C10_Witness ==
    /\ queue = <<>>
    /\ ~hist.external
    /\ ~hist.overlap
    /\ hist.appends = 2
    /\ Len(items) = hist.initLen + 2

====
